---- MODULE Spec2Model ----
(***************************************************************************)
(* Approval profiles of abcvoting (src/abcvoting/preferences.py): the      *)
(* classes Profile and Voter, with the Python objects they hold kept in a  *)
(* heap so that object identity (aliasing) and the iteration order of the  *)
(* built-in set can be stated.                                             *)
(***************************************************************************)
EXTENDS Integers, Sequences, FiniteSets, TLC

VARIABLES
    candidates,            \* Profile.candidates: the list 0, ..., num_cand-1
    cand_names,            \* Profile.cand_names: list of str
    _voters,               \* Profile._voters: list of (references to) Voter objects
    _approved_candidates,  \* Profile._approved_candidates: the cache field
    heap,                  \* the Python objects alive: reference -> list, set or Voter
    held,                  \* the arguments of the last call, which the caller still holds
    own,                   \* the positions in held of the objects the caller made
    last                   \* the last call: operation, integer argument, outcome, value returned

vars == <<candidates, cand_names, _voters, _approved_candidates, heap, held, own, last>>

-----------------------------------------------------------------------------
(* Bounds of the model. *)

MaxVoters == 2      \* voters in a profile
MaxLen == 2         \* length of a list of approved candidates handed in
MaxBatch == 2       \* voters handed to one add_voters call
MaxNames == 3       \* length of a cand_names argument
MaxNumCand == 3     \* largest num_cand tried at construction

(* A candidate that is not an int (a float such as 0.5). *)
NonInt == 1000
IsInt(c) == c # NonInt

(* The values a caller puts into approval lists: a negative one, two valid  *)
(* ones that collide in CPython's set (0 and 8 share slot 0 of the 8-slot  *)
(* table), and a non-integer.                                               *)
CandVals == {-1, 0, 8, NonInt}
Weights == {0, 1, 2}
NumCands == {8}

None == "None"
(* An optional argument: absent (<<>>) or given (<<x>>). float("inf") as    *)
(* num_cand is the absent bound.                                            *)
Absent == <<>>
Given(x) == <<x>>

Range(s) == {s[i] : i \in DOMAIN s}
Min(S) == CHOOSE x \in S : \A y \in S : x <= y

SeqsUpTo(S, n) == UNION {[1..k -> S] : k \in 0..n}

-----------------------------------------------------------------------------
(* The built-in set, as CPython (3.7 and later) implements it: an open     *)
(* addressing hash table whose iteration order is its slot order.  A table *)
(* is a sequence of slots, slot i (from 0) at position i+1, each {} or     *)
(* {key}.  Only non-negative ints below 2^31 are ever kept (a voter with   *)
(* any other candidate is rejected before its set is observed); such an    *)
(* int is its own hash.                                                     *)

LINEAR_PROBES == 9
PERTURB_SHIFT == 5
PySet_MINSIZE == 8

RECURSIVE Pow2(_)
Pow2(n) == IF n = 0 THEN 1 ELSE 2 * Pow2(n - 1)

EmptyTable(size) == [i \in 1..size |-> {}]

(* The slot where key is, or the unused slot where it goes: the probe loop *)
(* of set_add_entry and of set_insert_clean.                                *)
RECURSIVE set_lookkey(_, _, _, _)
set_lookkey(table, key, i, perturb) ==
    LET mask == Len(table) - 1
        probes == IF i + LINEAR_PROBES <= mask THEN LINEAR_PROBES ELSE 0
        hits == {j \in i..(i + probes) : table[j + 1] = {} \/ table[j + 1] = {key}}
        shifted == perturb \div Pow2(PERTURB_SHIFT)
    IN IF hits # {} THEN Min(hits)
       ELSE set_lookkey(table, key, (i * 5 + 1 + shifted) % (mask + 1), shifted)

set_insert_clean(table, key) ==
    LET i == set_lookkey(table, key, key % Len(table), key)
    IN [table EXCEPT ![i + 1] = {key}]

TableKeys(table) == UNION Range(table)
(* list(s), tuple(s), for c in s: the keys in slot order. *)
TableOrder(table) ==
    LET used == SelectSeq(table, LAMBDA slot : slot # {})
    IN [k \in 1..Len(used) |-> CHOOSE c \in used[k] : TRUE]

RECURSIVE NewSize(_, _)
NewSize(size, minused) == IF size <= minused THEN NewSize(2 * size, minused) ELSE size

RECURSIVE InsertAllClean(_, _)
InsertAllClean(table, keys) ==
    IF keys = <<>> THEN table
    ELSE InsertAllClean(set_insert_clean(table, Head(keys)), Tail(keys))

set_table_resize(table, minused) ==
    InsertAllClean(EmptyTable(NewSize(PySet_MINSIZE, minused)), TableOrder(table))

(* s.add(key) *)
set_add_entry(table, key) ==
    IF key \in TableKeys(table) THEN table
    ELSE LET t == set_insert_clean(table, key)
             fill == Cardinality(TableKeys(t))
             mask == Len(t) - 1
         IN IF fill * 5 < mask * 3 THEN t ELSE set_table_resize(t, fill * 4)

RECURSIVE AddAll(_, _)
AddAll(table, keys) ==
    IF keys = <<>> THEN table ELSE AddAll(set_add_entry(table, Head(keys)), Tail(keys))

(* set(other) for a set other: set_merge into the empty 8-slot table. *)
set_merge(other) ==
    LET used == Cardinality(TableKeys(other))
        so == IF used * 5 >= (PySet_MINSIZE - 1) * 3
              THEN EmptyTable(NewSize(PySet_MINSIZE, used * 2))
              ELSE EmptyTable(PySet_MINSIZE)
    IN IF Len(so) = Len(other) THEN other
       ELSE InsertAllClean(so, TableOrder(other))

(* set(iterable) for a list: the elements added in order. *)
set_from_list(items) == AddAll(EmptyTable(PySet_MINSIZE), items)

-----------------------------------------------------------------------------
(* The heap.  An object is a list [type, items], a set [type, table] or a  *)
(* Voter [type, approved, weight], approved being the reference of the     *)
(* voter's set.  A new object gets a reference no live object has.         *)

Alloc(h) == Len(h) + 1

NewList(items) == [type |-> "list", items |-> items]
NewSetObj(table) == [type |-> "set", table |-> table]
NewVoterObj(approved, weight) == [type |-> "Voter", approved |-> approved, weight |-> weight]

(* The elements of a list or set object in iteration order, and as a set. *)
Items(obj) == IF obj.type = "list" THEN obj.items ELSE TableOrder(obj.table)
Elems(obj) == Range(Items(obj))

(* voter.approved as a set value, for a Voter reference. *)
Approved(h, v) == TableKeys(h[h[v].approved].table)

(* A reference's value carries no meaning: the live objects are numbered   *)
(* in a fixed order (the profile's voters in turn, each followed by its    *)
(* set, then the caller's objects), so that states which differ only in    *)
(* the values of references are one state.                                  *)
RECURSIVE VisitOrder(_, _)
VisitOrder(h, roots) ==
    IF roots = <<>> THEN <<>>
    ELSE (IF h[Head(roots)].type = "Voter" THEN <<Head(roots), h[Head(roots)].approved>>
          ELSE <<Head(roots)>>) \o VisitOrder(h, Tail(roots))

RECURSIVE FirstVisits(_, _)
FirstVisits(refs, seen) ==
    IF refs = <<>> THEN <<>>
    ELSE IF Head(refs) \in seen THEN FirstVisits(Tail(refs), seen)
    ELSE <<Head(refs)>> \o FirstVisits(Tail(refs), seen \cup {Head(refs)})

Renumbered(h, voters, xs) ==
    LET Numbered(ord) ==
            LET new(r) == CHOOSE k \in DOMAIN ord : ord[k] = r
            IN [heap |-> [k \in DOMAIN ord |->
                            IF h[ord[k]].type = "Voter"
                            THEN [h[ord[k]] EXCEPT !.approved = new(@)] ELSE h[ord[k]]],
                voters |-> [i \in DOMAIN voters |-> new(voters[i])],
                xs |-> [i \in DOMAIN xs |-> new(xs[i])]]
    IN Numbered(FirstVisits(VisitOrder(h, voters \o xs), {}))

-----------------------------------------------------------------------------
(* class Voter *)

OK == "ok"
DoubleEntries == "ValueError: double entries found in list of approved candidates"
NotSuitable == "TypeError: not suitable as candidate"
NotValidForNumCand == "ValueError: not valid for num_cand"
NotSuitableOrNotValid == "TypeError or ValueError, by the set's iteration order"
BadWeight == "ValueError: Weight should be a number > 0."

(* check_valid comparing with > where the code has >=. *)
check_valid_off_by_one(approved, weight, num_cand, approved_raw) ==
    LET nonint == {c \in approved : ~IsInt(c)}
        outside == {c \in approved :
                      IsInt(c) /\ (c < 0 \/ (num_cand # Absent /\ c > num_cand[1]))}
    IN IF approved_raw # Absent /\ Cardinality(approved) < Len(approved_raw[1])
       THEN DoubleEntries
       ELSE IF nonint # {} /\ outside # {} THEN NotSuitableOrNotValid
       ELSE IF nonint # {} THEN NotSuitable
       ELSE IF outside # {} THEN NotValidForNumCand
       ELSE IF ~(weight > 0) THEN BadWeight ELSE OK

(* check_valid without the comparison of the two lengths. *)
check_valid_no_double_entries(approved, weight, num_cand, approved_raw) ==
    LET nonint == {c \in approved : ~IsInt(c)}
        outside == {c \in approved :
                      IsInt(c) /\ (c < 0 \/ (num_cand # Absent /\ c >= num_cand[1]))}
    IN IF nonint # {} /\ outside # {} THEN NotSuitableOrNotValid
       ELSE IF nonint # {} THEN NotSuitable
       ELSE IF outside # {} THEN NotValidForNumCand
       ELSE IF ~(weight > 0) THEN BadWeight ELSE OK

(* Voter.check_valid, for a voter with approval set approved (a set value) *)
(* and weight weight.  num_cand is Absent for the default float("inf").    *)
(* The loop raises at the first offending candidate in the set's iteration *)
(* order; when the set holds both a non-int and an int out of range, which *)
(* of the two errors is raised depends on that order.                      *)
check_valid(approved, weight, num_cand, approved_raw) ==
    LET nonint == {c \in approved : ~IsInt(c)}
        outside == {c \in approved : IsInt(c) /\ (c < 0 \/ (num_cand # Absent /\ c >= num_cand[1]))}
    IN IF approved_raw # Absent /\ Cardinality(approved) < Len(approved_raw[1])
       THEN DoubleEntries
       ELSE IF nonint # {} /\ outside # {} THEN NotSuitableOrNotValid
       ELSE IF nonint # {} THEN NotSuitable
       ELSE IF outside # {} THEN NotValidForNumCand
       ELSE IF ~(weight > 0) THEN BadWeight
       ELSE OK

(* Voter.__init__ keeping a set it is given instead of copying it. *)
Voter_init_keeps_set(h, approved, weight) ==
    LET Checked(res, table) ==
            IF res # OK THEN [result |-> res, heap |-> h, ref |-> 0]
            ELSE IF h[approved].type = "set"
            THEN [result |-> OK, heap |-> Append(h, NewVoterObj(approved, weight)),
                  ref |-> Alloc(h)]
            ELSE [result |-> OK,
                  heap |-> h \o <<NewSetObj(table), NewVoterObj(Alloc(h), weight)>>,
                  ref |-> Alloc(h) + 1]
    IN Checked(check_valid(Elems(h[approved]), weight, Absent, Given(Items(h[approved]))),
               IF h[approved].type = "set" THEN h[approved].table
               ELSE set_from_list(h[approved].items))

(* Voter.__init__(approved, weight): approved is the reference of a list   *)
(* or set.  On success the heap gains the voter's own set, set(approved),  *)
(* and the Voter.                                                           *)
Voter_init(h, approved, weight) ==
    LET Checked(res, table) ==
            IF res # OK THEN [result |-> res, heap |-> h, ref |-> 0]
            ELSE [result |-> OK,
                  heap |-> h \o <<NewSetObj(table), NewVoterObj(Alloc(h), weight)>>,
                  ref |-> Alloc(h) + 1]
    IN Checked(check_valid(Elems(h[approved]), weight, Absent, Given(Items(h[approved]))),
               IF h[approved].type = "set" THEN set_merge(h[approved].table)
               ELSE set_from_list(h[approved].items))

-----------------------------------------------------------------------------
(* class Profile.  The operators take the profile's mutable fields as a    *)
(* record self = [_voters, _approved_candidates, heap] together with       *)
(* num_cand, and give the fields after the call and its outcome.           *)

num_cand == Len(candidates)

Self == [_voters |-> _voters, _approved_candidates |-> _approved_candidates, heap |-> heap]

Raise(self, res) == [self |-> self, result |-> res]

(* Profile._unique_voter: a fresh Voter, checked against num_cand. *)
_unique_voter(self, n, voter) ==
    LET Valid(made, res) ==
            IF res # OK
            THEN [self |-> [self EXCEPT !._approved_candidates = None], result |-> res, ref |-> 0]
            ELSE [self |-> [self EXCEPT !._approved_candidates = None, !.heap = made.heap],
                  result |-> OK, ref |-> made.ref]
        Constructed(made) ==
            IF made.result # OK THEN [self |-> self, result |-> made.result, ref |-> 0]
            ELSE Valid(made, check_valid(Approved(made.heap, made.ref),
                                         made.heap[made.ref].weight, Given(n), Absent))
    IN Constructed(IF self.heap[voter].type = "Voter"
                   THEN Voter_init(self.heap, self.heap[voter].approved, self.heap[voter].weight)
                   ELSE Voter_init(self.heap, voter, 1))

(* Profile.add_voter *)
add_voter(self, n, voter) ==
    LET Appended(u) ==
            IF u.result # OK THEN Raise(u.self, u.result)
            ELSE [self |-> [u.self EXCEPT !._voters = Append(@, u.ref)], result |-> OK]
    IN Appended(_unique_voter(self, n, voter))

(* add_voters going on with the loop after an exception. *)
RECURSIVE add_voters_goes_on(_, _, _)
add_voters_goes_on(self, n, voters) ==
    LET Rest(one) ==
            IF one.result # OK
            THEN [add_voters_goes_on(one.self, n, Tail(voters)) EXCEPT !.result = one.result]
            ELSE add_voters_goes_on(one.self, n, Tail(voters))
    IN IF voters = <<>> THEN [self |-> self, result |-> OK]
       ELSE Rest(add_voter(self, n, Head(voters)))

(* Profile.add_voters: add_voter for each voter in turn; an exception ends *)
(* the loop.                                                                *)
RECURSIVE add_voters(_, _, _)
add_voters(self, n, voters) ==
    LET Rest(one) == IF one.result # OK THEN one ELSE add_voters(one.self, n, Tail(voters))
    IN IF voters = <<>> THEN [self |-> self, result |-> OK]
       ELSE Rest(add_voter(self, n, Head(voters)))

IndexError == "IndexError: list assignment index out of range"

(* __setitem__ through a slice, self._voters[i:i + 1] = [voter], which    *)
(* inserts where the index is past the end.                                 *)
__setitem___slice(self, n, i, voter) ==
    LET Assigned(u, k) ==
            IF u.result # OK THEN Raise(u.self, u.result)
            ELSE IF k < 0 THEN Raise(u.self, IndexError)
            ELSE IF k >= Len(self._voters)
            THEN [self |-> [u.self EXCEPT !._voters = Append(@, u.ref)], result |-> OK]
            ELSE [self |-> [u.self EXCEPT !._voters[k + 1] = u.ref], result |-> OK]
    IN Assigned(_unique_voter(self, n, voter), IF i < 0 THEN i + Len(self._voters) ELSE i)

(* Profile.__setitem__: the right-hand side is evaluated first, then the   *)
(* list assignment, which counts a negative index from the end.            *)
__setitem__(self, n, i, voter) ==
    LET Assigned(u, k) ==
            IF u.result # OK THEN Raise(u.self, u.result)
            ELSE IF k < 0 \/ k >= Len(self._voters) THEN Raise(u.self, IndexError)
            ELSE [self |-> [u.self EXCEPT !._voters[k + 1] = u.ref], result |-> OK]
    IN Assigned(_unique_voter(self, n, voter), IF i < 0 THEN i + Len(self._voters) ELSE i)

-----------------------------------------------------------------------------
(* Profile: the reading operations. *)

UnboundLocalError == "UnboundLocalError: local variable '_approved_candidates'"

RECURSIVE UpdateAll(_, _, _)
UpdateAll(acc, h, voters) ==
    IF voters = <<>> THEN acc
    ELSE UpdateAll(acc \cup Approved(h, Head(voters)), h, Tail(voters))

(* approved_candidates leaving out the last voter. *)
approved_candidates_misses_last(self) ==
    IF self._approved_candidates = None
    THEN [result |-> OK,
          out |-> UpdateAll({}, self.heap,
                            SubSeq(self._voters, 1, Len(self._voters) - 1))]
    ELSE [result |-> UnboundLocalError, out |-> {}]

(* Profile.approved_candidates (a property): the union is built in a local *)
(* variable only when the cache field is None; the local is returned.      *)
approved_candidates(self) ==
    IF self._approved_candidates = None
    THEN [result |-> OK, out |-> UpdateAll({}, self.heap, self._voters)]
    ELSE [result |-> UnboundLocalError, out |-> {}]

RECURSIVE SumWeights(_, _)
SumWeights(h, voters) ==
    IF voters = <<>> THEN 0 ELSE h[Head(voters)].weight + SumWeights(h, Tail(voters))

(* Profile.totalweight *)
totalweight(self) == SumWeights(self.heap, self._voters)

(* Profile.has_unit_weights *)
has_unit_weights(self) == \A i \in DOMAIN self._voters : self.heap[self._voters[i]].weight = 1

(* is_party_list looking at each pair of voters once, the earlier first. *)
is_party_list_each_pair_once(self) ==
    \A i \in DOMAIN self._voters : \A j \in DOMAIN self._voters :
        LET a1 == Approved(self.heap, self._voters[i])
            a2 == Approved(self.heap, self._voters[j])
        IN i < j => Cardinality(a1 \cap a2) \in {0, Cardinality(a1)}

(* Profile.is_party_list *)
is_party_list(self) ==
    \A i \in DOMAIN self._voters : \A j \in DOMAIN self._voters :
        LET a1 == Approved(self.heap, self._voters[i])
            a2 == Approved(self.heap, self._voters[j])
        IN Cardinality(a1 \cap a2) \in {0, Cardinality(a1)}

-----------------------------------------------------------------------------
(* Text.  A str is a TLA+ string; s[:-2] is Cut2(s). *)

Cut2(s) == IF Len(s) <= 2 THEN "" ELSE SubSeq(s, 1, Len(s) - 2)

RECURSIVE Join(_, _)
Join(strs, sep) ==
    IF strs = <<>> THEN ""
    ELSE IF Len(strs) = 1 THEN strs[1]
    ELSE strs[1] \o sep \o Join(Tail(strs), sep)

RECURSIVE Sorted(_)
Sorted(S) == IF S = {} THEN <<>> ELSE <<Min(S)>> \o Sorted(S \ {Min(S)})

(* abcvoting.misc.str_set_of_candidates: the names of the candidates in    *)
(* ascending index order, in braces.                                        *)
str_set_of_candidates(candset, names) ==
    LET cs == Sorted(candset)
    IN "{" \o Join([k \in 1..Len(cs) |-> names[cs[k] + 1]], ", ") \o "}"

RECURSIVE StrLines(_, _, _, _)
StrLines(h, names, voters, unit) ==
    IF voters = <<>> THEN ""
    ELSE (IF unit
          THEN " " \o str_set_of_candidates(Approved(h, Head(voters)), names) \o ",\n"
          ELSE " " \o ToString(h[Head(voters)].weight) \o " * "
                   \o str_set_of_candidates(Approved(h, Head(voters)), names) \o " ,\n")
         \o StrLines(h, names, Tail(voters), unit)

(* Profile.__str__ *)
__str__(self, n, names) ==
    LET unit == has_unit_weights(self)
        head == (IF unit THEN "" ELSE "weighted ") \o "profile with "
                \o ToString(Len(self._voters)) \o " votes and " \o ToString(n)
                \o " candidates:\n"
    IN Cut2(head \o StrLines(self.heap, names, self._voters, unit))

(* The OrderedDict compact of str_compact, a sequence of [key, weight] in  *)
(* insertion order; the key of a voter is tuple(voter.approved), the       *)
(* approval set in its iteration order.                                     *)
VoterKey(h, v) == TableOrder(h[h[v].approved].table)

RECURSIVE Compact(_, _, _)
Compact(dict, h, voters) ==
    IF voters = <<>> THEN dict
    ELSE LET key == VoterKey(h, Head(voters))
             w == h[Head(voters)].weight
             at == {k \in DOMAIN dict : dict[k].key = key}
             next == IF at # {}
                     THEN [dict EXCEPT ![CHOOSE k \in at : TRUE].weight = @ + w]
                     ELSE Append(dict, [key |-> key, weight |-> w])
         IN Compact(next, h, Tail(voters))

RECURSIVE CompactLines(_, _)
CompactLines(dict, names) ==
    IF dict = <<>> THEN ""
    ELSE " " \o ToString(dict[1].weight) \o " x "
         \o str_set_of_candidates(Range(dict[1].key), names) \o ",\n"
         \o CompactLines(Tail(dict), names)

(* Profile.str_compact *)
str_compact(self, n, names) ==
    LET compact == Compact(<<>>, self.heap, self._voters)
        unit == has_unit_weights(self)
        head == (IF unit THEN "" ELSE "weighted ") \o "profile with "
                \o ToString(Len(self._voters)) \o " votes and " \o ToString(n)
                \o " candidates:\n"
        body == Cut2(head \o CompactLines(compact, names))
    IN body \o (IF ~unit THEN "\ntotal weight: " \o ToString(totalweight(self)) ELSE "")
            \o "\n"

-----------------------------------------------------------------------------
(* Profile.__init__.  A name handed in is a str or an int, [type, v];      *)
(* str(name) turns either into a str.  cand_names is Absent for None.      *)

NameVals == {[type |-> "str", v |-> "a"], [type |-> "str", v |-> "b"], [type |-> "int", v |-> 7]}

py_str(name) == IF name.type = "int" THEN ToString(name.v) ELSE name.v

NotANumberOfCandidates == "ValueError: is not a valid number of candidates"
NamesTooShort == "ValueError: cand_names has length < num_cand"

Profile_init(n, names) ==
    LET cands == [i \in 1..n |-> i - 1]
        default == [i \in 1..n |-> ToString(i - 1)]
        fresh == [candidates |-> cands, cand_names |-> default, _voters |-> <<>>,
                  _approved_candidates |-> None]
    IN IF n <= 0 THEN [result |-> NotANumberOfCandidates]
       ELSE IF names # Absent /\ Len(names[1]) > 0
       THEN IF Len(names[1]) < n THEN [result |-> NamesTooShort]
            ELSE [result |-> OK,
                  self |-> [fresh EXCEPT !.cand_names = [i \in 1..n |-> py_str(names[1][i])]]]
       ELSE [result |-> OK, self |-> fresh]

-----------------------------------------------------------------------------
(* The state machine.  For each call the calling code makes the objects it *)
(* hands in (or takes voters of the profile, profile[i]).  When the call   *)
(* is over it still holds them (held: their references, in argument order; *)
(* own: which of them it made itself) and may change its own; then it lets *)
(* go of them (Return) and is ready for its next call.                     *)

Call(op, arg, result, out) == [op |-> op, arg |-> arg, result |-> result, out |-> out]
Ready == Call("ready", 0, OK, 0)

NonNeg == {c \in CandVals : IsInt(c) /\ c >= 0}
Distinct(S, n) == {s \in SeqsUpTo(S, n) : Cardinality(Range(s)) = Len(s)}

(* What a caller can hand in: a list, a set, or a Voter it constructed     *)
(* (and whose weight it may have assigned since).                           *)
Lists == {[kind |-> "list", items |-> s, weight |-> 1] : s \in SeqsUpTo(CandVals, MaxLen)}
Sets == {[kind |-> "set", items |-> s, weight |-> 1] : s \in Distinct(NonNeg, MaxLen)}
Voters == {[kind |-> "Voter", items |-> s, weight |-> w] : s \in Distinct(NonNeg, MaxLen), w \in Weights}

(* The heap with the object made, and its reference. *)
Made(h, a) ==
    IF a.kind = "list" THEN [heap |-> Append(h, NewList(a.items)), ref |-> Alloc(h)]
    ELSE IF a.kind = "set"
    THEN [heap |-> Append(h, NewSetObj(set_from_list(a.items))), ref |-> Alloc(h)]
    ELSE [heap |-> h \o <<NewSetObj(set_from_list(a.items)), NewVoterObj(Alloc(h), a.weight)>>,
          ref |-> Alloc(h) + 1]

Init ==
    \E n \in NumCands :
        LET p == Profile_init(n, Absent).self
        IN /\ candidates = p.candidates
           /\ cand_names = p.cand_names
           /\ _voters = p._voters
           /\ _approved_candidates = p._approved_candidates
           /\ heap = <<>>
           /\ held = <<>>
           /\ own = {}
           /\ last = Ready

(* The state after a call r that may have changed the profile; xs are the  *)
(* arguments and mine those the caller made.                                *)
Changed(r, op, idx, xs, mine) ==
    LET Numbered(c) ==
            /\ _voters' = c.voters
            /\ heap' = c.heap
            /\ held' = c.xs
    IN /\ Len(r.self._voters) <= MaxVoters
       /\ Numbered(Renumbered(r.self.heap, r.self._voters, xs))
       /\ _approved_candidates' = r.self._approved_candidates
       /\ own' = {i \in DOMAIN xs : xs[i] \in mine}
       /\ last' = Call(op, idx, r.result, 0)
       /\ UNCHANGED <<candidates, cand_names>>

(* profile.add_voter(x), x made by the caller *)
AddVoter(from) ==
    /\ last.op = "ready"
    /\ \E a \in from : \E m \in {Made(heap, a)} :
           Changed(add_voter([Self EXCEPT !.heap = m.heap], num_cand, m.ref),
                   "add_voter", 0, <<m.ref>>, {m.ref})

(* profile.add_voter(profile[i]) *)
AddStored ==
    /\ last.op = "ready"
    /\ \E i \in DOMAIN _voters :
           Changed(add_voter(Self, num_cand, _voters[i]), "add_voter", 0, <<_voters[i]>>, {})

(* profile.add_voters(vs), vs a list in which x, made by the caller, is    *)
(* at the positions at and voters of the profile at the others              *)
AddVoters(from) ==
    /\ last.op = "ready"
    /\ \E a \in from : \E m \in {Made(heap, a)} :
           \E vs \in SeqsUpTo({m.ref} \cup Range(_voters), MaxBatch) :
               /\ m.ref \in Range(vs)
               /\ Changed(add_voters([Self EXCEPT !.heap = m.heap], num_cand, vs),
                          "add_voters", 0, vs, {m.ref})

(* profile.add_voters(vs), vs a list of voters of the profile *)
AddStoredVoters ==
    /\ last.op = "ready"
    /\ \E vs \in SeqsUpTo(Range(_voters), MaxBatch) :
           Changed(add_voters(Self, num_cand, vs), "add_voters", 0, vs, {})

(* profile[i] = x *)
SetItem(from) ==
    /\ last.op = "ready"
    /\ \E a \in from, i \in (0 - MaxVoters - 1)..MaxVoters : \E m \in {Made(heap, a)} :
           Changed(__setitem__([Self EXCEPT !.heap = m.heap], num_cand, i, m.ref),
                   "__setitem__", i, <<m.ref>>, {m.ref})

(* profile[i] = profile[j] *)
SetStored ==
    /\ last.op = "ready"
    /\ \E j \in DOMAIN _voters, i \in (0 - MaxVoters - 1)..MaxVoters :
           Changed(__setitem__(Self, num_cand, i, _voters[j]), "__setitem__", i,
                   <<_voters[j]>>, {})

(* The caller changes an object of its own. *)
Mutated(h, op) ==
    /\ heap' = h
    /\ last' = Call(op, 0, OK, 0)
    /\ UNCHANGED <<candidates, cand_names, _voters, _approved_candidates, held, own>>

(* x.append(c) *)
ListAppend ==
    /\ last.op \in {"add_voter", "add_voters", "__setitem__"}
    /\ \E i \in own, c \in CandVals :
           /\ heap[held[i]].type = "list"
           /\ Len(heap[held[i]].items) < MaxLen
           /\ Mutated([heap EXCEPT ![held[i]].items = Append(@, c)], "x.append")

(* x.add(c) *)
SetAdd ==
    /\ last.op \in {"add_voter", "add_voters", "__setitem__"}
    /\ \E i \in own, c \in NonNeg :
           /\ heap[held[i]].type = "set"
           /\ c \notin Elems(heap[held[i]])
           /\ Mutated([heap EXCEPT ![held[i]].table = set_add_entry(@, c)], "x.add")

(* x.approved.add(c) *)
VoterApprovedAdd ==
    /\ last.op \in {"add_voter", "add_voters", "__setitem__"}
    /\ \E i \in own, c \in NonNeg :
           /\ heap[held[i]].type = "Voter"
           /\ c \notin Approved(heap, held[i])
           /\ Mutated([heap EXCEPT ![heap[held[i]].approved].table = set_add_entry(@, c)],
                      "x.approved.add")

(* A reading call. *)
Read(op, result, out) ==
    /\ last.op = "ready"
    /\ last' = Call(op, 0, result, out)
    /\ UNCHANGED <<candidates, cand_names, _voters, _approved_candidates, heap, held, own>>

ReadApprovedCandidates ==
    LET Got(r) == Read("approved_candidates", r.result, r.out)
    IN Got(approved_candidates(Self))

ReadIsPartyList == Read("is_party_list", OK, is_party_list(Self))

ReadTotalWeight == Read("totalweight", OK, totalweight(Self))

ReadHasUnitWeights == Read("has_unit_weights", OK, has_unit_weights(Self))

ReadStr == Read("__str__", OK, __str__(Self, num_cand, cand_names))

ReadStrCompact == Read("str_compact", OK, str_compact(Self, num_cand, cand_names))

(* The caller lets go of the objects of its last call. *)
Return ==
    LET Numbered(c) == heap' = c.heap /\ _voters' = c.voters
    IN /\ last.op # "ready"
       /\ last' = Ready
       /\ held' = <<>>
       /\ own' = {}
       /\ Numbered(Renumbered(heap, _voters, <<>>))
       /\ UNCHANGED <<candidates, cand_names, _approved_candidates>>

Next ==
    \/ AddVoter(Lists \cup Sets \cup Voters) \/ AddStored
    \/ AddVoters(Lists \cup Sets \cup Voters) \/ AddStoredVoters
    \/ SetItem(Lists \cup Sets \cup Voters) \/ SetStored
    \/ ListAppend \/ SetAdd \/ VoterApprovedAdd
    \/ ReadApprovedCandidates \/ ReadIsPartyList
    \/ Return

Spec == Init /\ [][Next]_vars

(* A profile of nine candidates that is filled voter by voter and read.    *)
ReadNumCands == {9}

InitRead ==
    \E n \in ReadNumCands :
        LET p == Profile_init(n, Absent).self
        IN /\ candidates = p.candidates
           /\ cand_names = p.cand_names
           /\ _voters = p._voters
           /\ _approved_candidates = p._approved_candidates
           /\ heap = <<>>
           /\ held = <<>>
           /\ own = {}
           /\ last = Ready

NextRead ==
    \/ AddVoter(Lists \cup Sets \cup Voters)
    \/ ReadApprovedCandidates \/ ReadIsPartyList
    \/ ReadTotalWeight \/ ReadHasUnitWeights
    \/ ReadStr \/ ReadStrCompact
    \/ Return

SpecRead == InitRead /\ [][NextRead]_vars

(* No profile: code that constructs Voters, or Profiles, and drops them.   *)
InitNoProfile ==
    /\ candidates = <<>>
    /\ cand_names = <<>>
    /\ _voters = <<>>
    /\ _approved_candidates = None
    /\ heap = <<>>
    /\ held = <<>>
    /\ own = {}
    /\ last = Ready

(* The universe sizes handed to check_valid. *)
CheckNumCands == {1, 8, 9}

(* v = Voter(x, weight=w); held is <<x, v>>, or <<x>> when it raises *)
VoterNew ==
    /\ last.op = "ready"
    /\ \E a \in Lists \cup Sets, w \in Weights : \E m \in {Made(heap, a)} :
           \E v \in {Voter_init(m.heap, m.ref, w)} :
               /\ heap' = v.heap
               /\ held' = IF v.result = OK THEN <<m.ref, v.ref>> ELSE <<m.ref>>
               /\ own' = DOMAIN held'
               /\ last' = Call("Voter", w, v.result, 0)
               /\ UNCHANGED <<candidates, cand_names, _voters, _approved_candidates>>

(* v.check_valid(n) *)
VoterCheckValid ==
    /\ last.op = "Voter" /\ last.result = OK
    /\ \E n \in CheckNumCands :
           last' = Call("check_valid", n,
                        check_valid(Approved(heap, held[2]), heap[held[2]].weight,
                                    Given(n), Absent), 0)
    /\ UNCHANGED <<candidates, cand_names, _voters, _approved_candidates, heap, held, own>>

NextVoter == VoterNew \/ VoterCheckValid \/ Return

SpecVoter == InitNoProfile /\ [][NextVoter]_vars

(* The cand_names arguments: none, or a sequence of names. *)
NameArgs == {Absent} \cup {Given(names) : names \in SeqsUpTo(NameVals, MaxNames)}

(* profile = Profile(n, cand_names=names); held is the cand_names argument *)
ProfileNew ==
    /\ last.op = "ready"
    /\ \E n \in (0 - 1)..MaxNumCand, names \in NameArgs :
           \E r \in {Profile_init(n, names)} :
               /\ IF r.result = OK
                  THEN /\ candidates' = r.self.candidates
                       /\ cand_names' = r.self.cand_names
                       /\ _voters' = r.self._voters
                       /\ _approved_candidates' = r.self._approved_candidates
                  ELSE UNCHANGED <<candidates, cand_names, _voters, _approved_candidates>>
               /\ held' = names
               /\ last' = Call("Profile", n, r.result, 0)
               /\ UNCHANGED <<heap, own>>

(* del profile *)
ProfileDrop ==
    /\ last.op = "Profile"
    /\ candidates' = <<>>
    /\ cand_names' = <<>>
    /\ _voters' = <<>>
    /\ _approved_candidates' = None
    /\ held' = <<>>
    /\ last' = Ready
    /\ UNCHANGED <<heap, own>>

NextCtor == ProfileNew \/ ProfileDrop

SpecCtor == InitNoProfile /\ [][NextCtor]_vars

-----------------------------------------------------------------------------
(* What the claims speak of. *)

(* The voters of the profile as values: approval set and weight. *)
Contents(h, voters) ==
    [i \in DOMAIN voters |-> [approved |-> Approved(h, voters[i]), weight |-> h[voters[i]].weight]]

(* An argument (a list, a set or a Voter) as the caller sees it: the        *)
(* candidates in the order given, and the weight.                           *)
ArgItems(h, x) == IF h[x].type = "Voter" THEN Items(h[h[x].approved]) ELSE Items(h[x])
ArgWeight(h, x) == IF h[x].type = "Voter" THEN h[x].weight ELSE 1
CopyOf(h, x) == [approved |-> Range(ArgItems(h, x)), weight |-> ArgWeight(h, x)]

(* The argument passes validation against n candidates: no duplicate       *)
(* entry, only integers, each in 0..n-1, and a weight > 0.                  *)
PassesValidation(h, x, n) ==
    /\ Cardinality(Range(ArgItems(h, x))) = Len(ArgItems(h, x))
    /\ \A c \in Range(ArgItems(h, x)) : IsInt(c) /\ 0 <= c /\ c < n
    /\ ArgWeight(h, x) > 0

Mutating == {"add_voter", "add_voters", "__setitem__"}
CallerChanges == {"x.append", "x.add", "x.approved.add"}

(* C1: whatever calls were made, successful or failing, every voter in the *)
(* profile approves only candidates c with 0 <= c < num_cand and has a     *)
(* weight > 0, and num_cand never changes.                                  *)
StoredVotersValid ==
    \A i \in DOMAIN _voters :
        /\ \A c \in Approved(heap, _voters[i]) : IsInt(c) /\ 0 <= c /\ c < num_cand
        /\ heap[_voters[i]].weight > 0

C1_StoredVotersStayValid == [][StoredVotersValid' /\ Len(candidates') = Len(candidates)]_vars

(* A failing replacement was made on a profile that holds voters. *)
C1_Witness ==
    /\ last.op = "__setitem__" /\ last.result = NotValidForNumCand
    /\ Len(_voters) >= 2
    /\ \E i \in DOMAIN _voters : Approved(heap, _voters[i]) # {} /\ heap[_voters[i]].weight = 2

(* The sets that belong to the arguments the caller holds. *)
ArgSets == {IF heap[held[i]].type = "Voter" THEN heap[held[i]].approved ELSE held[i] :
              i \in DOMAIN held}
StoredSets == {heap[_voters[i]].approved : i \in DOMAIN _voters}

NoSharedObject ==
    /\ \A i, j \in DOMAIN _voters :
           i # j => /\ _voters[i] # _voters[j]
                    /\ heap[_voters[i]].approved # heap[_voters[j]].approved
    /\ \A i \in own :
           /\ held[i] \notin Range(_voters)
           /\ held[i] \notin StoredSets
           /\ heap[held[i]].type = "Voter" => heap[held[i]].approved \notin StoredSets

(* C2: the voter a call stores is a new Voter with a new set: it is not an *)
(* object handed in (nor the set of a Voter handed in), no two voters of   *)
(* the profile are one object or share their set, and a change the caller  *)
(* makes to its own object afterwards changes no voter of the profile.     *)
C2_StoredVotersAreFresh ==
    [][/\ NoSharedObject'
       /\ (last'.op \in Mutating /\ last'.result = OK) =>
              \A p \in (IF last'.op = "__setitem__"
                        THEN {IF last'.arg < 0 THEN last'.arg + Len(_voters) + 1 ELSE last'.arg + 1}
                        ELSE (Len(_voters) + 1)..Len(_voters')) :
                  /\ _voters'[p] \notin Range(held')
                  /\ heap'[_voters'[p]].approved \notin ArgSets'
       /\ last'.op \in CallerChanges => Contents(heap', _voters') = Contents(heap, _voters)
      ]_vars

(* add_voters([s] * 2) with a set s of the caller has stored two voters. *)
C2_Witness ==
    /\ last.op = "add_voters" /\ last.result = OK
    /\ Len(held) = 2 /\ held[1] = held[2] /\ own = {1, 2}
    /\ heap[held[1]].type = "set" /\ Elems(heap[held[1]]) # {}
    /\ Len(_voters) = 2

(* C3: approved_candidates, whenever it is read, succeeds and is the union *)
(* of the approval sets of the voters now in the profile.                  *)
C3_ApprovedCandidatesIsUnion ==
    last.op = "approved_candidates" =>
        /\ last.result = OK
        /\ last.out = UNION {Approved(heap, _voters[i]) : i \in DOMAIN _voters}

(* Read on a profile whose first voter approves a candidate and whose last *)
(* approves none.                                                           *)
C3_Witness ==
    /\ last.op = "approved_candidates" /\ last.out # {}
    /\ Len(_voters) >= 2
    /\ Approved(heap, _voters[Len(_voters)]) = {}

(* The first argument of a call that does not pass validation, 0 if all do. *)
FirstFailing(h, xs, n) ==
    IF \A i \in DOMAIN xs : PassesValidation(h, xs[i], n) THEN 0
    ELSE Min({i \in DOMAIN xs : ~PassesValidation(h, xs[i], n)})

(* C5: a failing add_voters(vs) leaves the previous voters followed by     *)
(* copies of the elements before the first one that fails validation, in   *)
(* order, and nothing after; a failing add_voter leaves the voters as they *)
(* were.                                                                    *)
C5_AddVotersKeepsPrefix ==
    [][/\ (last'.op = "add_voters" /\ last'.result # OK) =>
              /\ FirstFailing(heap', held', num_cand) > 0
              /\ Contents(heap', _voters') =
                     Contents(heap, _voters)
                     \o [i \in 1..(FirstFailing(heap', held', num_cand) - 1) |->
                            CopyOf(heap', held'[i])]
       /\ (last'.op = "add_voter" /\ last'.result # OK) =>
              Contents(heap', _voters') = Contents(heap, _voters)
      ]_vars

(* add_voters failed at its second element after storing its first. *)
C5_Witness ==
    /\ last.op = "add_voters" /\ last.result # OK
    /\ Len(held) = 2
    /\ FirstFailing(heap, held, num_cand) = 2
    /\ Len(_voters) = 2

(* C7: profile[i] = voter, when it succeeds, puts a validated copy of the  *)
(* voter at that index and changes nothing else: not the length, no other  *)
(* voter, not num_cand, not cand_names.  With an index out of range or a   *)
(* voter that fails validation it fails and leaves the voters as they were.*)
C7_SetItemFrame ==
    [][last'.op = "__setitem__" =>
          LET len == Len(_voters)
              k == IF last'.arg < 0 THEN last'.arg + len + 1 ELSE last'.arg + 1
          IN /\ last'.result = OK <=>
                    (k \in 1..len /\ PassesValidation(heap', held'[1], num_cand))
             /\ last'.result = OK =>
                    /\ Len(_voters') = len
                    /\ \A j \in 1..len : j # k =>
                           Contents(heap', _voters')[j] = Contents(heap, _voters)[j]
                    /\ Contents(heap', _voters')[k] = CopyOf(heap', held'[1])
                    /\ StoredVotersValid'
                    /\ candidates' = candidates /\ cand_names' = cand_names
             /\ last'.result # OK => Contents(heap', _voters') = Contents(heap, _voters)
      ]_vars

(* A replacement through a negative index succeeded on a profile of two    *)
(* voters and changed the voter there.                                      *)
C7_Witness ==
    /\ last.op = "__setitem__" /\ last.result = OK /\ last.arg = -1
    /\ Len(_voters) = 2
    /\ heap[_voters[2]].weight = 2
    /\ heap[_voters[1]].weight = 1

(* C4: is_party_list is true exactly when any two voters of the profile    *)
(* have approval sets that are disjoint or the same set.                   *)
C4_PartyListIffDisjointOrEqual ==
    last.op = "is_party_list" =>
        (last.out <=>
            \A i, j \in DOMAIN _voters :
                \/ Approved(heap, _voters[i]) \cap Approved(heap, _voters[j]) = {}
                \/ Approved(heap, _voters[i]) = Approved(heap, _voters[j]))

(* is_party_list is false for a voter with a set followed by one with a    *)
(* proper superset of it.                                                   *)
C4_Witness ==
    /\ last.op = "is_party_list" /\ last.out = FALSE
    /\ Len(_voters) = 2
    /\ Approved(heap, _voters[1]) # {}
    /\ Approved(heap, _voters[1]) \subseteq Approved(heap, _voters[2])

(* The groups of a voter sequence by approval set, as a set: [approved,    *)
(* weight] in the order of first occurrence.                                *)
RECURSIVE GroupsBySet(_, _, _)
GroupsBySet(groups, h, voters) ==
    IF voters = <<>> THEN groups
    ELSE LET a == Approved(h, Head(voters))
             w == h[Head(voters)].weight
             at == {k \in DOMAIN groups : groups[k].approved = a}
         IN GroupsBySet(IF at = {} THEN Append(groups, [approved |-> a, weight |-> w])
                        ELSE [k \in DOMAIN groups |->
                                 IF k \in at THEN [groups[k] EXCEPT !.weight = @ + w]
                                 ELSE groups[k]],
                        h, Tail(voters))

RECURSIVE GroupLines(_, _)
GroupLines(groups, names) ==
    IF groups = <<>> THEN ""
    ELSE " " \o ToString(groups[1].weight) \o " x "
         \o str_set_of_candidates(groups[1].approved, names) \o ",\n"
         \o GroupLines(Tail(groups), names)

HeaderLine ==
    (IF has_unit_weights(Self) THEN "" ELSE "weighted ") \o "profile with "
    \o ToString(Len(_voters)) \o " votes and " \o ToString(num_cand) \o " candidates:"

TotalWeightLine == "total weight: " \o ToString(totalweight(Self)) \o "\n"

StartsWith(s, prefix) == Len(s) >= Len(prefix) /\ SubSeq(s, 1, Len(prefix)) = prefix
EndsWith(s, suffix) ==
    Len(s) >= Len(suffix) /\ SubSeq(s, Len(s) - Len(suffix) + 1, Len(s)) = suffix

(* C6: the text of str_compact() of a profile with voters has, after the   *)
(* header, one line per distinct approval set (as a set), in the order of  *)
(* first occurrence, each with the sum of the weights of the voters with   *)
(* that set.                                                                *)
C6_CompactGroupsBySetValue ==
    (last.op = "str_compact" /\ _voters # <<>>) =>
        last.out = HeaderLine \o "\n"
                   \o Cut2(GroupLines(GroupsBySet(<<>>, heap, _voters), cand_names))
                   \o "\n"
                   \o (IF has_unit_weights(Self) THEN "" ELSE TotalWeightLine)

(* C10: the text of str(profile) and of str_compact() begins with the      *)
(* whole header line, colon included, whatever the number of voters, and   *)
(* str_compact() ends with the total weight line exactly when the weights  *)
(* are not all 1.                                                           *)
C10_HeaderLineComplete ==
    /\ last.op \in {"__str__", "str_compact"} => StartsWith(last.out, HeaderLine)
    /\ last.op = "str_compact" =>
           (EndsWith(last.out, TotalWeightLine) <=> ~has_unit_weights(Self))

(* C8: Voter(approved, weight) raises exactly when the input has a         *)
(* candidate twice, a candidate that is no integer, a candidate < 0, or    *)
(* weight <= 0; a candidate however large is taken at construction and     *)
(* refused only by check_valid with a num_cand.  When it does not raise    *)
(* the Voter has the candidates given as its set and the weight given.     *)
C8_VoterRaisesExactly ==
    /\ last.op = "Voter" =>
           /\ last.result # OK <=>
                  \/ Cardinality(Elems(heap[held[1]])) < Len(Items(heap[held[1]]))
                  \/ \E c \in Elems(heap[held[1]]) : ~IsInt(c)
                  \/ \E c \in Elems(heap[held[1]]) : IsInt(c) /\ c < 0
                  \/ last.arg <= 0
           /\ last.result = OK =>
                  /\ Approved(heap, held[2]) = Elems(heap[held[1]])
                  /\ heap[held[2]].weight = last.arg
                  /\ heap[held[2]].approved # held[1]
    /\ last.op = "check_valid" =>
           (last.result # OK <=> \E c \in Approved(heap, held[2]) : c >= last.arg)

(* Voter([-1]) has raised. *)
C8_Witness ==
    /\ last.op = "Voter" /\ last.result = NotValidForNumCand
    /\ heap[held[1]].type = "list" /\ Items(heap[held[1]]) = <<0 - 1>>
    /\ last.arg = 1

(* C8 as stated: Voter(approved, weight) raises exactly when the input has *)
(* a candidate twice, a candidate that is no integer, or weight <= 0.      *)
C8_AsStated ==
    last.op = "Voter" =>
        (last.result # OK <=>
            \/ Cardinality(Elems(heap[held[1]])) < Len(Items(heap[held[1]]))
            \/ \E c \in Elems(heap[held[1]]) : ~IsInt(c)
            \/ last.arg <= 0)

(* C9: Profile(num_cand, cand_names) raises if num_cand <= 0 and whenever  *)
(* cand_names is given with fewer than num_cand names, an empty sequence   *)
(* included; otherwise the profile has no voters, the candidates           *)
(* 0..num_cand-1 and num_cand names: the first num_cand given, as strs, or *)
(* the indices as strs.                                                     *)
C9_ProfileConstruction ==
    last.op = "Profile" =>
        /\ last.result # OK <=>
               (last.arg <= 0 \/ (held # Absent /\ Len(held[1]) < last.arg))
        /\ last.result = OK =>
               /\ _voters = <<>>
               /\ candidates = [i \in 1..last.arg |-> i - 1]
               /\ cand_names = IF held = Absent
                               THEN [i \in 1..last.arg |-> ToString(i - 1)]
                               ELSE [i \in 1..last.arg |-> py_str(held[1][i])]

====
